---- MODULE Spec2Model ----
(***************************************************************************)
(* Model of selfdrive/car/gm/carstate.py: the GM CarState decoder.         *)
(*                                                                         *)
(* The three CAN parsers (powertrain, camera, loopback) hold the Signal    *)
(* Tables pt_cp.vl, cam_cp.vl and loopback_cp.vl_all; frames arriving on a *)
(* bus overwrite one message of a table.  CarState.update decodes the      *)
(* tables into one snapshot `ret` and updates the decoder's own fields.    *)
(*                                                                         *)
(* Numbers.  Signals are integers.  Values the code scales by a float are  *)
(* kept as exact fractions with a fixed denominator:                       *)
(*   cruiseState.speed  in units of 1/288 m/s  (KPH_TO_MS = 5/18, and the   *)
(*                      ACC set point is further divided by 16)            *)
(*   gas                as the pair <<numerator, denominator>>             *)
(*   wheel speeds       in 1/1000 of the signal's unit; vEgoRaw, vEgo and   *)
(*                      aEgo in 1/4000 of it                               *)
(***************************************************************************)
EXTENDS Integers, Sequences, FiniteSets, TLC

\* ------------------------------------------------------------------ bounds
\* largest BrakePedalPos a frame carries
MaxBrakePedalPos == 20
\* largest ACCButtons code a frame carries
MaxButton == 2
\* largest RollingCounter a frame carries
MaxCounter == 1
\* most ASCMLKASteeringCmd frames the loopback parser collects in one cycle
MaxFrames == 2
\* largest AcceleratorPedal2.CruiseState a frame carries
MaxCruiseState == 3
\* largest set-speed signal (CruiseSetSpeed, ACCSpeedSetpoint) a frame carries
MaxSetSpeed == 1
\* largest PRNDL2 selector code a frame carries
MaxPRNDL2 == 4
\* most calls of update on the decoder whose calls are counted
MaxUpdates == 2

\* --------------------------------------------------------------- constants
\* selfdrive/car/gm/values.py, class AccState
AccState_OFF == 0
AccState_STANDSTILL == 2
AccState_FAULTED == 3
\* selfdrive/car/gm/values.py
STEER_THRESHOLD == 1

\* what `ret` holds while no snapshot is outstanding
NoRet == [snapshot |-> FALSE]
\* an attribute that no assignment has created yet
Unset == -1

VARIABLES
  CP,                                  \* self.CP: the car parameters
  shifter_values,                      \* self.shifter_values: PRNDL2 code -> label
  pt_vl,                               \* pt_cp.vl
  cam_vl,                              \* cam_cp.vl
  loopback_vl_all,                     \* loopback_cp.vl_all["ASCMLKASteeringCmd"]
  cruise_buttons,                      \* self.cruise_buttons
  prev_cruise_buttons,                 \* self.prev_cruise_buttons
  buttons_counter,                     \* self.buttons_counter
  loopback_lka_steering_cmd_updated,   \* self.loopback_lka_steering_cmd_updated
  camera_lka_steering_cmd_counter,     \* self.camera_lka_steering_cmd_counter
  lkas_status,                         \* self.lkas_status
  v_ego_kf,                            \* self.v_ego_kf.x: <<velocity, acceleration>>
  kf_updates,                          \* how many updates self.v_ego_kf has received
  update_calls,                        \* how many times update was called
  other,                               \* a second CarState built from the same CP
  ret,                                 \* the snapshot update returned, or NoRet
  accessed                             \* the <<bus, message>> pairs update read

tables == <<pt_vl, cam_vl, loopback_vl_all>>
selfvars == <<cruise_buttons, prev_cruise_buttons, buttons_counter,
              loopback_lka_steering_cmd_updated, camera_lka_steering_cmd_counter,
              lkas_status, v_ego_kf>>
counters == <<kf_updates, update_calls>>
vars == <<CP, shifter_values, tables, selfvars, counters, other, ret, accessed>>

\* ----------------------------------------------------------- configuration
Configurations ==
  [fwdCamera : BOOLEAN, direct : BOOLEAN, enableGasInterceptor : BOOLEAN,
   ccOnly : BOOLEAN, passive : BOOLEAN]

\* value tables of ECMPRDNL2.PRNDL2 a DBC may define
Dictionaries ==
  { <<>>,
    (1 :> "P" @@ 2 :> "R" @@ 3 :> "N" @@ 4 :> "D"),
    (0 :> "Shifter Illuminated/Off" @@ 1 :> "p" @@ 2 :> "T" @@ 3 :> "L") }

\* ------------------------------------------------------------ button codes
\* the previous code taken after the current code was overwritten
PrevCruiseButtonsAfterOverwrite(old_cruise_buttons, pt) ==
  pt["ASCMSteeringButton"]["ACCButtons"]

\* line 25: the previous code is the code held before this call
PrevCruiseButtons(old_cruise_buttons, pt) == old_cruise_buttons

\* line 26
CruiseButtons(pt) == pt["ASCMSteeringButton"]["ACCButtons"]

\* line 27
ButtonsCounter(pt) == pt["ASCMSteeringButton"]["RollingCounter"]

\* ------------------------------------------------------------ command echo
\* the frame count compared with 1 instead of 0
LoopbackLkaSteeringCmdUpdatedOffByOne(lb_all) == Len(lb_all) > 1

\* line 30: some frame of ASCMLKASteeringCmd arrived on the loopback bus
LoopbackLkaSteeringCmdUpdated(lb_all) == Len(lb_all) > 0

\* the camera counter cached without the topology test
CameraLkaSteeringCmdCounterAnyTopology(cp, old_counter, cam) ==
  cam["ASCMLKASteeringCmd"]["RollingCounter"]

\* lines 31-32: only a forward-camera car caches a counter, and it is the
\* counter of the camera bus's ASCMLKASteeringCmd
CameraLkaSteeringCmdCounter(cp, old_counter, cam) ==
  IF cp.fwdCamera THEN cam["ASCMLKASteeringCmd"]["RollingCounter"] ELSE old_counter

\* -------------------------------------------------------------- kinematics
\* CarStateBase.get_wheel_speeds: the four signals as the wheelSpeeds struct,
\* in the unit of the signals
get_wheel_speeds(fl, fr, rl, rr) == [fl |-> fl, fr |-> fr, rl |-> rl, rr |-> rr]

\* lines 34-39
WheelSpeeds(pt) ==
  get_wheel_speeds(pt["EBCMWheelSpdFront"]["FLWheelSpd"],
                   pt["EBCMWheelSpdFront"]["FRWheelSpd"],
                   pt["EBCMWheelSpdRear"]["RLWheelSpd"],
                   pt["EBCMWheelSpdRear"]["RRWheelSpd"])

\* line 40: the mean of the four wheel speeds (1/1000); in 1/4000 it is their sum
VEgoRaw(pt) ==
  LET w == WheelSpeeds(pt) IN w.fl + w.fr + w.rl + w.rr

\* line 42: vEgoRaw < 0.01, that is < 40/4000
Standstill(pt) == VEgoRaw(pt) < 40

\* CarStateBase.update_speed_kf: one step of a linear estimator with fixed
\* gains on the state <<velocity, acceleration>>, fed the measurement z
update_speed_kf(kf, z) ==
  LET e == z - kf[1]
  IN <<kf[1] + kf[2] + (e \div 8), kf[2] + (e \div 32)>>

\* the estimator left alone while the car stands still
SpeedKfSkippedAtStandstill(kf, pt) ==
  IF Standstill(pt) THEN kf ELSE update_speed_kf(kf, VEgoRaw(pt))

\* line 41: the estimator after this call, fed vEgoRaw
SpeedKf(kf, pt) == update_speed_kf(kf, VEgoRaw(pt))

\* the update not counted while the car stands still
KfUpdatesSkippedAtStandstill(n, pt) == IF Standstill(pt) THEN n ELSE n + 1

\* line 41: update_speed_kf is called once in every call of update
KfUpdates(n, pt) == n + 1

\* -------------------------------------------------------------------- gear
Upper(label) ==
  CASE label = "p" -> "P"
    [] OTHER -> label

\* CarStateBase.parse_gear_shifter: None and unrecognised labels are unknown
parse_gear_shifter(gear) ==
  LET d == ("P" :> "park" @@ "R" :> "reverse" @@ "N" :> "neutral" @@ "E" :> "eco"
            @@ "T" :> "manumatic" @@ "D" :> "drive" @@ "S" :> "sport"
            @@ "L" :> "low" @@ "B" :> "brake")
  IN IF gear = "None" THEN "unknown"
     ELSE IF Upper(gear) \in DOMAIN d THEN d[Upper(gear)] ELSE "unknown"

\* dict.get(key, None)
DictGet(dict, key) == IF key \in DOMAIN dict THEN dict[key] ELSE "None"

\* the manual-mode flag ignored
GearShifterNoManualMode(sv, pt) ==
  parse_gear_shifter(DictGet(sv, pt["ECMPRDNL2"]["PRNDL2"]))

\* lines 44-47
GearShifter(sv, pt) ==
  IF pt["ECMPRDNL2"]["ManualMode"] = 1
    THEN parse_gear_shifter("T")
    ELSE parse_gear_shifter(DictGet(sv, pt["ECMPRDNL2"]["PRNDL2"]))

\* ------------------------------------------------------------------- brake
\* line 53
Brake(pt) == pt["ECMAcceleratorPos"]["BrakePedalPos"]

\* the thresholds compared with > instead of >=
BrakePedalPressedStrict(cp, pt) ==
  IF ~cp.fwdCamera THEN Brake(pt) > 8 ELSE Brake(pt) > 20

\* lines 54-59: the pedal threshold of the topology
BrakePedalPressed(cp, pt) ==
  IF ~cp.fwdCamera THEN Brake(pt) >= 8 ELSE Brake(pt) >= 20

\* lines 54-63: regen braking is braking, on a direct-drive transmission
BrakePressed(cp, pt) ==
  IF cp.direct
    THEN BrakePedalPressed(cp, pt) \/ pt["EBCMRegenPaddle"]["RegenPaddle"] # 0
    ELSE BrakePedalPressed(cp, pt)

\* ---------------------------------------------------------------- throttle
\* lines 65-66, 69: gas as <<numerator, denominator>>
Gas(cp, pt) ==
  IF cp.enableGasInterceptor
    THEN <<pt["GAS_SENSOR"]["INTERCEPTOR_GAS"] + pt["GAS_SENSOR"]["INTERCEPTOR_GAS2"], 2>>
    ELSE <<pt["AcceleratorPedal2"]["AcceleratorPedal2"], 254>>

\* lines 67, 70: gas > 15, or gas > 1e-5
GasPressed(cp, pt) ==
  LET g == Gas(cp, pt)
  IN IF cp.enableGasInterceptor THEN g[1] > 15 * g[2] ELSE g[1] * 100000 > g[2]

\* ---------------------------------------------------------------- steering
Abs(x) == IF x < 0 THEN -x ELSE x

\* line 76
SteeringPressed(pt) == Abs(pt["PSCMStatus"]["LKADriverAppldTrq"]) > STEER_THRESHOLD

\* line 79
LkasStatus(pt) == pt["PSCMStatus"]["LKATorqueDeliveredStatus"]

\* the status of the previous call read, as if line 79 came after lines 80-81
SelfLkasStatusStale(old_status, pt) == old_status

\* lines 80-81 read self.lkas_status after line 79 assigned it
SelfLkasStatus(old_status, pt) == LkasStatus(pt)

\* every status from 2 up taken as a temporary fault
SteerFaultTemporaryFromTwoUp(status) == status >= 2

\* line 80
SteerFaultTemporary(status) == status = 2

\* line 81
SteerFaultPermanent(status) == status = 3

\* ------------------------------------------------------------- body/safety
\* lines 84-87
DoorOpen(pt) ==
  \/ pt["BCMDoorBeltStatus"]["FrontLeftDoor"] = 1
  \/ pt["BCMDoorBeltStatus"]["FrontRightDoor"] = 1
  \/ pt["BCMDoorBeltStatus"]["RearLeftDoor"] = 1
  \/ pt["BCMDoorBeltStatus"]["RearRightDoor"] = 1

\* ------------------------------------------------------------------ cruise
\* the interceptor's flip of the main switch left out
CruiseAvailableNoFlip(cp, pt) == pt["ECMEngineStatus"]["CruiseMainOn"] # 0

\* lines 95-97
CruiseAvailable(cp, pt) ==
  LET main == pt["ECMEngineStatus"]["CruiseMainOn"] # 0
  IN IF cp.enableGasInterceptor THEN ~main ELSE main

\* the status code decoded on a CC-only car too
AccFaultedFromStatus(cp, pt) ==
  pt["AcceleratorPedal2"]["CruiseState"] = AccState_FAULTED

\* lines 100-102, 107
AccFaulted(cp, pt) ==
  IF cp.ccOnly THEN FALSE
  ELSE pt["AcceleratorPedal2"]["CruiseState"] = AccState_FAULTED

\* lines 103, 108
CruiseEnabled(cp, pt) ==
  IF cp.ccOnly THEN pt["ECMEngineStatus"]["CruiseActive"] = 1
  ELSE pt["AcceleratorPedal2"]["CruiseState"] # AccState_OFF

\* lines 104, 109
CruiseStandstill(cp, pt) ==
  IF cp.ccOnly THEN FALSE
  ELSE pt["AcceleratorPedal2"]["CruiseState"] = AccState_STANDSTILL

\* line 105: nonAdaptive is set on a CC-only car and keeps its default otherwise
CruiseNonAdaptive(cp) == cp.ccOnly

\* x * CV.KPH_TO_MS, in 1/288 m/s
KphToMs(x) == x * 80

\* (x / 16) * CV.KPH_TO_MS, in 1/288 m/s
KphToMsDiv16(x) == x * 5

\* lines 112-119: the set point is assigned only on a forward-camera car;
\* otherwise the field keeps the default of a new message, 0
CruiseSpeed(cp, pt, cam) ==
  IF cp.fwdCamera
    THEN IF cp.ccOnly
           THEN KphToMs(pt["ECMCruiseControl"]["CruiseSetSpeed"])
           ELSE KphToMsDiv16(cam["ASCMActiveCruiseControlStatus"]["ACCSpeedSetpoint"])
    ELSE 0

\* line 114
StockAeb(cp, cam) == cp.fwdCamera /\ cam["AEBCmd"]["AEBCmdActive"] # 0

\* line 120
StockFcw(cp, cam) ==
  cp.fwdCamera /\ ~cp.ccOnly /\ cam["ASCMActiveCruiseControlStatus"]["FCWAlert"] # 0

\* ------------------------------------------------- declared message checks
\* get_can_parser, lines 179-207: <<message, expected rate>>
PtChecks(cp) ==
  { <<"BCMTurnSignals", 1>>, <<"ECMPRDNL2", 10>>, <<"PSCMStatus", 10>>,
    <<"ESPStatus", 10>>, <<"BCMDoorBeltStatus", 10>>, <<"VehicleIgnitionAlt", 10>>,
    <<"EBCMWheelSpdFront", 20>>, <<"EBCMWheelSpdRear", 20>>,
    <<"AcceleratorPedal2", 33>>, <<"ASCMSteeringButton", 33>>,
    <<"ECMEngineStatus", 100>>, <<"PSCMSteeringAngle", 100>>,
    <<"ECMAcceleratorPos", 80>> }
  \cup (IF cp.ccOnly THEN { <<"ECMCruiseControl", 10>> } ELSE {})
  \cup (IF cp.direct THEN { <<"EBCMRegenPaddle", 50>> } ELSE {})
  \cup (IF cp.enableGasInterceptor THEN { <<"GAS_SENSOR", 50>> } ELSE {})

\* get_cam_can_parser, lines 126-141
CamChecks(cp) ==
  (IF cp.fwdCamera THEN { <<"AEBCmd", 10>>, <<"ASCMLKASteeringCmd", 10>> } ELSE {})
  \cup (IF cp.fwdCamera /\ ~cp.ccOnly
          THEN { <<"ASCMActiveCruiseControlStatus", 25>> } ELSE {})

\* get_loopback_can_parser, lines 213-224
LoopbackChecks(cp) ==
  { <<"ASCMLKASteeringCmd", IF cp.passive THEN 0 ELSE 10>> }

\* the checks of the parser of a bus
Checks(cp, bus) ==
  CASE bus = "pt" -> PtChecks(cp)
    [] bus = "cam" -> CamChecks(cp)
    [] bus = "loopback" -> LoopbackChecks(cp)

\* the <<bus, message>> pairs one call of update reads a field of, lines 22-122
Accessed(cp, pt) ==
  { <<"pt", "ASCMSteeringButton">>, <<"loopback", "ASCMLKASteeringCmd">>,
    <<"pt", "EBCMWheelSpdFront">>, <<"pt", "EBCMWheelSpdRear">>,
    <<"pt", "ECMPRDNL2">>, <<"pt", "ECMAcceleratorPos">>,
    <<"pt", "PSCMSteeringAngle">>, <<"pt", "PSCMStatus">>,
    <<"pt", "BCMDoorBeltStatus">>, <<"pt", "BCMTurnSignals">>,
    <<"pt", "VehicleIgnitionAlt">>, <<"pt", "ECMEngineStatus">>,
    <<"pt", "ESPStatus">> }
  \cup (IF cp.fwdCamera THEN { <<"cam", "ASCMLKASteeringCmd">> } ELSE {})
  \* line 63: `or` reads the paddle only when the pedal is not pressed
  \cup (IF cp.direct /\ ~BrakePedalPressed(cp, pt)
          THEN { <<"pt", "EBCMRegenPaddle">> } ELSE {})
  \cup (IF cp.enableGasInterceptor
          THEN { <<"pt", "GAS_SENSOR">> } ELSE { <<"pt", "AcceleratorPedal2">> })
  \cup (IF ~cp.ccOnly THEN { <<"pt", "AcceleratorPedal2">> } ELSE {})
  \* lines 113-114 run on every forward-camera car, CC-only or not
  \cup (IF cp.fwdCamera
          THEN { <<"cam", "ASCMActiveCruiseControlStatus">>, <<"cam", "AEBCmd">> }
          ELSE {})
  \cup (IF cp.fwdCamera /\ cp.ccOnly THEN { <<"pt", "ECMCruiseControl">> } ELSE {})

\* ----------------------------------------------------------- the snapshot
\* car.CarState as update fills it, lines 23-122
\* kf is self.v_ego_kf and old_status is self.lkas_status when update is called
Decode(cp, sv, pt, cam, kf, old_status) ==
  [ wheelSpeeds |-> WheelSpeeds(pt),
    vEgoRaw |-> VEgoRaw(pt),
    vEgo |-> SpeedKf(kf, pt)[1],
    aEgo |-> SpeedKf(kf, pt)[2],
    standstill |-> Standstill(pt),
    gearShifter |-> GearShifter(sv, pt),
    brake |-> Brake(pt),
    brakePressed |-> BrakePressed(cp, pt),
    gas |-> Gas(cp, pt),
    gasPressed |-> GasPressed(cp, pt),
    steeringAngleDeg |-> pt["PSCMSteeringAngle"]["SteeringWheelAngle"],
    steeringRateDeg |-> pt["PSCMSteeringAngle"]["SteeringWheelRate"],
    steeringTorque |-> pt["PSCMStatus"]["LKADriverAppldTrq"],
    steeringTorqueEps |-> pt["PSCMStatus"]["LKATorqueDelivered"],
    steeringPressed |-> SteeringPressed(pt),
    steerFaultTemporary |-> SteerFaultTemporary(SelfLkasStatus(old_status, pt)),
    steerFaultPermanent |-> SteerFaultPermanent(SelfLkasStatus(old_status, pt)),
    doorOpen |-> DoorOpen(pt),
    seatbeltUnlatched |-> pt["BCMDoorBeltStatus"]["LeftSeatBelt"] = 0,
    leftBlinker |-> pt["BCMTurnSignals"]["TurnSignals"] = 1,
    rightBlinker |-> pt["BCMTurnSignals"]["TurnSignals"] = 2,
    parkingBrake |-> pt["VehicleIgnitionAlt"]["ParkBrake"] = 1,
    espDisabled |-> pt["ESPStatus"]["TractionControlOn"] # 1,
    accFaulted |-> AccFaulted(cp, pt),
    cruiseState |-> [ available |-> CruiseAvailable(cp, pt),
                      enabled |-> CruiseEnabled(cp, pt),
                      standstill |-> CruiseStandstill(cp, pt),
                      nonAdaptive |-> CruiseNonAdaptive(cp),
                      speed |-> CruiseSpeed(cp, pt, cam) ],
    stockAeb |-> StockAeb(cp, cam),
    stockFcw |-> StockFcw(cp, cam) ]

\* ------------------------------------------------------------------- Init
\* a CANParser starts with every signal at 0
PtInit ==
  [ ASCMSteeringButton |-> [ACCButtons |-> 0, RollingCounter |-> 0],
    EBCMWheelSpdFront |-> [FLWheelSpd |-> 0, FRWheelSpd |-> 0],
    EBCMWheelSpdRear |-> [RLWheelSpd |-> 0, RRWheelSpd |-> 0],
    ECMPRDNL2 |-> [PRNDL2 |-> 0, ManualMode |-> 0],
    ECMAcceleratorPos |-> [BrakePedalPos |-> 0],
    EBCMRegenPaddle |-> [RegenPaddle |-> 0],
    GAS_SENSOR |-> [INTERCEPTOR_GAS |-> 0, INTERCEPTOR_GAS2 |-> 0],
    AcceleratorPedal2 |-> [AcceleratorPedal2 |-> 0, CruiseState |-> 0],
    PSCMSteeringAngle |-> [SteeringWheelAngle |-> 0, SteeringWheelRate |-> 0],
    PSCMStatus |-> [LKADriverAppldTrq |-> 0, LKATorqueDelivered |-> 0,
                    LKATorqueDeliveredStatus |-> 0],
    BCMDoorBeltStatus |-> [FrontLeftDoor |-> 0, FrontRightDoor |-> 0,
                           RearLeftDoor |-> 0, RearRightDoor |-> 0,
                           LeftSeatBelt |-> 0],
    BCMTurnSignals |-> [TurnSignals |-> 0],
    VehicleIgnitionAlt |-> [ParkBrake |-> 0],
    ECMEngineStatus |-> [CruiseMainOn |-> 0, CruiseActive |-> 0],
    ESPStatus |-> [TractionControlOn |-> 0],
    ECMCruiseControl |-> [CruiseSetSpeed |-> 0] ]

CamInit ==
  [ ASCMLKASteeringCmd |-> [RollingCounter |-> 0],
    ASCMActiveCruiseControlStatus |-> [ACCSpeedSetpoint |-> 0, FCWAlert |-> 0],
    AEBCmd |-> [AEBCmdActive |-> 0] ]

\* the fields of a CarState after __init__, as a record; lkas_status_found is
\* the self.lkas_status the latest call of update found on entry
SelfInit ==
  [ cruise_buttons |-> 0,
    prev_cruise_buttons |-> Unset,
    buttons_counter |-> 0,
    loopback_lka_steering_cmd_updated |-> FALSE,
    camera_lka_steering_cmd_counter |-> 0,
    lkas_status |-> Unset,
    lkas_status_found |-> Unset,
    v_ego_kf |-> <<0, 0>>,
    ret |-> NoRet ]

\* CarState.__init__, lines 14-20, after CarStateBase.__init__ (cruise_buttons = 0)
Init ==
  /\ CP \in Configurations
  /\ shifter_values \in Dictionaries
  /\ pt_vl = PtInit
  /\ cam_vl = CamInit
  /\ loopback_vl_all = <<>>
  /\ cruise_buttons = 0
  /\ prev_cruise_buttons = Unset
  /\ buttons_counter = 0
  /\ loopback_lka_steering_cmd_updated = FALSE
  /\ camera_lka_steering_cmd_counter = 0
  /\ lkas_status = Unset
  /\ v_ego_kf = <<0, 0>>
  /\ kf_updates = 0
  /\ update_calls = 0
  /\ other = SelfInit
  /\ ret = NoRet
  /\ accessed = {}

\* ------------------------------------------------------------ the parsers
\* a frame of `msg` reaches the powertrain parser; the caller has consumed
\* the snapshot of the previous cycle
pt_cp_update(msg, signals) ==
  /\ pt_vl' = [pt_vl EXCEPT ![msg] = signals]
  /\ ret' = NoRet
  /\ other' = [other EXCEPT !.ret = NoRet]
  /\ accessed' = {}
  /\ UNCHANGED counters
  /\ UNCHANGED <<CP, shifter_values, cam_vl, loopback_vl_all, selfvars>>

\* a frame of `msg` reaches the camera parser
cam_cp_update(msg, signals) ==
  /\ cam_vl' = [cam_vl EXCEPT ![msg] = signals]
  /\ ret' = NoRet
  /\ other' = [other EXCEPT !.ret = NoRet]
  /\ accessed' = {}
  /\ UNCHANGED counters
  /\ UNCHANGED <<CP, shifter_values, pt_vl, loopback_vl_all, selfvars>>

\* the loopback parser starts a cycle: vl_all is emptied
LoopbackClear ==
  /\ loopback_vl_all # <<>>
  /\ loopback_vl_all' = <<>>
  /\ ret' = NoRet
  /\ other' = [other EXCEPT !.ret = NoRet]
  /\ accessed' = {}
  /\ UNCHANGED counters
  /\ UNCHANGED <<CP, shifter_values, pt_vl, cam_vl, selfvars>>

\* one more frame of ASCMLKASteeringCmd in the loopback parser's cycle
LoopbackFrame ==
  /\ Len(loopback_vl_all) < MaxFrames
  /\ \E c \in 0..MaxCounter : loopback_vl_all' = Append(loopback_vl_all, c)
  /\ ret' = NoRet
  /\ other' = [other EXCEPT !.ret = NoRet]
  /\ accessed' = {}
  /\ UNCHANGED counters
  /\ UNCHANGED <<CP, shifter_values, pt_vl, cam_vl, selfvars>>

RecvASCMSteeringButton ==
  \E b \in 0..MaxButton, c \in 0..MaxCounter :
    pt_cp_update("ASCMSteeringButton", [ACCButtons |-> b, RollingCounter |-> c])

RecvECMPRDNL2 ==
  \E g \in 0..MaxPRNDL2, m \in 0..1 :
    pt_cp_update("ECMPRDNL2", [PRNDL2 |-> g, ManualMode |-> m])

RecvECMAcceleratorPos ==
  \E b \in 0..MaxBrakePedalPos :
    pt_cp_update("ECMAcceleratorPos", [BrakePedalPos |-> b])

RecvEBCMRegenPaddle ==
  \E r \in 0..2 : pt_cp_update("EBCMRegenPaddle", [RegenPaddle |-> r])

RecvAcceleratorPedal2 ==
  \E a \in {0, 254}, s \in 0..MaxCruiseState :
    pt_cp_update("AcceleratorPedal2", [AcceleratorPedal2 |-> a, CruiseState |-> s])

RecvPSCMStatus ==
  \E t \in {-2, 0, 1}, s \in 0..3 :
    pt_cp_update("PSCMStatus", [LKADriverAppldTrq |-> t, LKATorqueDelivered |-> 0,
                                LKATorqueDeliveredStatus |-> s])

RecvECMEngineStatus ==
  \E m \in 0..1, a \in 0..1 :
    pt_cp_update("ECMEngineStatus", [CruiseMainOn |-> m, CruiseActive |-> a])

RecvECMCruiseControl ==
  \E v \in 0..MaxSetSpeed :
    pt_cp_update("ECMCruiseControl", [CruiseSetSpeed |-> v])

RecvEBCMWheelSpdFront ==
  \E l \in {0, 10}, r \in {0, 10} :
    pt_cp_update("EBCMWheelSpdFront", [FLWheelSpd |-> l, FRWheelSpd |-> r])

RecvEBCMWheelSpdRear ==
  \E l \in {0, 10}, r \in {0, 10} :
    pt_cp_update("EBCMWheelSpdRear", [RLWheelSpd |-> l, RRWheelSpd |-> r])

RecvGAS_SENSOR ==
  \E g \in {0, 15, 16}, h \in {0, 15, 16} :
    pt_cp_update("GAS_SENSOR", [INTERCEPTOR_GAS |-> g, INTERCEPTOR_GAS2 |-> h])

RecvPSCMSteeringAngle ==
  \E a \in -1..1, r \in -1..1 :
    pt_cp_update("PSCMSteeringAngle", [SteeringWheelAngle |-> a, SteeringWheelRate |-> r])

RecvBCMDoorBeltStatus ==
  \E fl \in 0..1, fr \in 0..1, rl \in 0..1, rr \in 0..1, b \in 0..1 :
    pt_cp_update("BCMDoorBeltStatus",
                 [FrontLeftDoor |-> fl, FrontRightDoor |-> fr, RearLeftDoor |-> rl,
                  RearRightDoor |-> rr, LeftSeatBelt |-> b])

RecvBCMTurnSignals ==
  \E t \in 0..3 : pt_cp_update("BCMTurnSignals", [TurnSignals |-> t])

RecvVehicleIgnitionAlt ==
  \E b \in 0..1 : pt_cp_update("VehicleIgnitionAlt", [ParkBrake |-> b])

RecvESPStatus ==
  \E t \in 0..1 : pt_cp_update("ESPStatus", [TractionControlOn |-> t])

RecvCamAEBCmd ==
  \E a \in 0..1 : cam_cp_update("AEBCmd", [AEBCmdActive |-> a])

RecvCamASCMLKASteeringCmd ==
  \E c \in 0..MaxCounter :
    cam_cp_update("ASCMLKASteeringCmd", [RollingCounter |-> c])

RecvCamASCMActiveCruiseControlStatus ==
  \E v \in 0..MaxSetSpeed, f \in 0..1 :
    cam_cp_update("ASCMActiveCruiseControlStatus",
                  [ACCSpeedSetpoint |-> v, FCWAlert |-> f])

\* ---------------------------------------------------------------- update
\* CarState.update, lines 22-122
update ==
  /\ update_calls < MaxUpdates
  /\ update_calls' = update_calls + 1
  /\ prev_cruise_buttons' = PrevCruiseButtons(cruise_buttons, pt_vl)
  /\ cruise_buttons' = CruiseButtons(pt_vl)
  /\ buttons_counter' = ButtonsCounter(pt_vl)
  /\ loopback_lka_steering_cmd_updated' = LoopbackLkaSteeringCmdUpdated(loopback_vl_all)
  /\ camera_lka_steering_cmd_counter' =
       CameraLkaSteeringCmdCounter(CP, camera_lka_steering_cmd_counter, cam_vl)
  /\ lkas_status' = LkasStatus(pt_vl)
  /\ v_ego_kf' = SpeedKf(v_ego_kf, pt_vl)
  /\ kf_updates' = KfUpdates(kf_updates, pt_vl)
  /\ ret' = Decode(CP, shifter_values, pt_vl, cam_vl, v_ego_kf, lkas_status)
  /\ accessed' = Accessed(CP, pt_vl)
  /\ UNCHANGED <<CP, shifter_values, tables, other>>

\* CarState.update, lines 22-122, called on the second decoder
update_other ==
  /\ other' =
       [ cruise_buttons |-> CruiseButtons(pt_vl),
         prev_cruise_buttons |-> PrevCruiseButtons(other.cruise_buttons, pt_vl),
         buttons_counter |-> ButtonsCounter(pt_vl),
         loopback_lka_steering_cmd_updated |->
           LoopbackLkaSteeringCmdUpdated(loopback_vl_all),
         camera_lka_steering_cmd_counter |->
           CameraLkaSteeringCmdCounter(CP, other.camera_lka_steering_cmd_counter, cam_vl),
         lkas_status |-> LkasStatus(pt_vl),
         lkas_status_found |-> other.lkas_status,
         v_ego_kf |-> SpeedKf(other.v_ego_kf, pt_vl),
         ret |-> Decode(CP, shifter_values, pt_vl, cam_vl, other.v_ego_kf,
                        other.lkas_status) ]
  /\ other' # other
  /\ UNCHANGED <<CP, shifter_values, tables, selfvars, counters, ret, accessed>>

\* -------------------------------------------------------- specifications
Next ==
  \/ RecvASCMSteeringButton
  \/ RecvECMPRDNL2
  \/ RecvECMAcceleratorPos
  \/ RecvEBCMRegenPaddle
  \/ RecvAcceleratorPedal2
  \/ RecvPSCMStatus
  \/ RecvECMEngineStatus
  \/ RecvECMCruiseControl
  \/ RecvEBCMWheelSpdFront
  \/ RecvEBCMWheelSpdRear
  \/ RecvGAS_SENSOR
  \/ RecvPSCMSteeringAngle
  \/ RecvBCMDoorBeltStatus
  \/ RecvBCMTurnSignals
  \/ RecvVehicleIgnitionAlt
  \/ RecvESPStatus
  \/ RecvCamAEBCmd
  \/ RecvCamASCMLKASteeringCmd
  \/ RecvCamASCMActiveCruiseControlStatus
  \/ LoopbackClear
  \/ LoopbackFrame
  \/ update
  \/ update_other

Spec == Init /\ [][Next]_vars

\* The specifications below restrict the bus traffic to the messages of one
\* part of the decoder; update is the same whole action in each of them.

\* brake traffic only
NextBrake == RecvECMAcceleratorPos \/ RecvEBCMRegenPaddle \/ update

SpecBrake == Init /\ [][NextBrake]_vars

\* cruise traffic only
NextCruise ==
  \/ RecvAcceleratorPedal2
  \/ RecvECMEngineStatus
  \/ RecvECMCruiseControl
  \/ RecvCamASCMActiveCruiseControlStatus
  \/ update

SpecCruise == Init /\ [][NextCruise]_vars

\* steering-command echo traffic only
NextEcho == RecvCamASCMLKASteeringCmd \/ LoopbackClear \/ LoopbackFrame \/ update

SpecEcho == Init /\ [][NextEcho]_vars

\* steering status traffic only
NextSteer == RecvPSCMStatus \/ update

SpecSteer == Init /\ [][NextSteer]_vars

\* gear selector traffic only
NextGear == RecvECMPRDNL2 \/ update

SpecGear == Init /\ [][NextGear]_vars

\* steering-wheel button traffic only
NextButtons == RecvASCMSteeringButton \/ update

SpecButtons == Init /\ [][NextButtons]_vars

\* wheel-speed traffic only
NextKinematics == RecvEBCMWheelSpdFront \/ RecvEBCMWheelSpdRear \/ update

SpecKinematics == Init /\ [][NextKinematics]_vars

\* two decoders on the same tables, steering status traffic only
NextTwin == RecvPSCMStatus \/ update \/ update_other

SpecTwin == Init /\ [][NextTwin]_vars

\* ================================================================ claims
\* C1: in every snapshot brakePressed is (BrakePedalPos >= T) or (direct-drive
\* transmission and RegenPaddle # 0), with T = 8 on an integrated car and
\* T = 20 on a forward-camera car; on a conventional transmission the paddle
\* has no say.
C1_BrakePressed ==
  ret # NoRet =>
    LET b == pt_vl.ECMAcceleratorPos.BrakePedalPos
        T == IF CP.fwdCamera THEN 20 ELSE 8
    IN ret.brakePressed
         = ((b >= T) \/ (CP.direct /\ pt_vl.EBCMRegenPaddle.RegenPaddle # 0))

\* C1 witness: direct drive, pedal at 7 below the integrated threshold, paddle
\* pulled, and the snapshot says pressed
C1_Witness ==
  /\ ret # NoRet
  /\ CP.direct /\ ~CP.fwdCamera
  /\ pt_vl.ECMAcceleratorPos.BrakePedalPos = 7
  /\ pt_vl.EBCMRegenPaddle.RegenPaddle # 0
  /\ ret.brakePressed

\* C2 as stated: in every snapshot cruise enabled implies cruise available.
C2_EnabledImpliesAvailable ==
  ret # NoRet => (ret.cruiseState.enabled => ret.cruiseState.available)

\* C2 amended: available is decided by CruiseMainOn alone (nonzero without
\* the interceptor, zero with it) and enabled by the cruise-active bit (CC-only)
\* or the status code (otherwise); enabled implies available only in the
\* cycles where CruiseMainOn has that polarity.
C2_AvailableAndEnabledIndependent ==
  ret # NoRet =>
    LET main == pt_vl.ECMEngineStatus.CruiseMainOn
        polarity == IF CP.enableGasInterceptor THEN main = 0 ELSE main # 0
    IN /\ ret.cruiseState.available = polarity
       /\ ret.cruiseState.enabled
            = (IF CP.ccOnly THEN pt_vl.ECMEngineStatus.CruiseActive = 1
               ELSE pt_vl.AcceleratorPedal2.CruiseState # 0)
       /\ (ret.cruiseState.enabled /\ polarity) => ret.cruiseState.available

\* C2 witness: the interceptor is fitted, the main switch is on, the status
\* code says active: the snapshot is enabled and not available
C2_Witness ==
  /\ ret # NoRet
  /\ CP.enableGasInterceptor /\ ~CP.ccOnly
  /\ pt_vl.ECMEngineStatus.CruiseMainOn = 1
  /\ pt_vl.AcceleratorPedal2.CruiseState = 1
  /\ ret.cruiseState.enabled /\ ~ret.cruiseState.available

\* C3 as stated: whenever the loopback table holds a frame of
\* ASCMLKASteeringCmd, the cached counter is the latest such frame's counter.
C3_CounterIsLatestLoopbackFrame ==
  (ret # NoRet /\ Len(loopback_vl_all) > 0) =>
    camera_lka_steering_cmd_counter = loopback_vl_all[Len(loopback_vl_all)]

\* C3 amended: on a forward-camera car the cached counter is the
\* RollingCounter of the camera bus's ASCMLKASteeringCmd, whatever the
\* loopback frames carry; on an integrated car it stays 0, its initial value.
C3_CounterIsCameraCounter ==
  ret # NoRet =>
    camera_lka_steering_cmd_counter
      = (IF CP.fwdCamera THEN cam_vl.ASCMLKASteeringCmd.RollingCounter ELSE 0)

\* C3 witness: a forward-camera car with loopback frames whose latest counter
\* differs from the camera bus's, which is the one cached
C3_Witness ==
  /\ ret # NoRet
  /\ CP.fwdCamera
  /\ Len(loopback_vl_all) > 0
  /\ loopback_vl_all[Len(loopback_vl_all)] # cam_vl.ASCMLKASteeringCmd.RollingCounter
  /\ camera_lka_steering_cmd_counter = cam_vl.ASCMLKASteeringCmd.RollingCounter
  /\ camera_lka_steering_cmd_counter # 0

\* C4: every <<bus, message>> pair update reads is in the checks the parser
\* of that bus declares for the same configuration.
C4_AccessedMessagesDeclared ==
  ret # NoRet =>
    \A a \in accessed : \E c \in Checks(CP, a[1]) : c[1] = a[2]

\* C5: on a CC-only car the set point is CruiseSetSpeed * KPH_TO_MS in every
\* topology.
C5_CcOnlySpeedIsCruiseSetSpeed ==
  (ret # NoRet /\ CP.ccOnly) =>
    ret.cruiseState.speed = KphToMs(pt_vl.ECMCruiseControl.CruiseSetSpeed)

\* C6: on a CC-only car, whatever the status code, accFaulted is false,
\* standstill is false, nonAdaptive is true, and enabled is CruiseActive = 1.
C6_CcOnlyCruiseState ==
  (ret # NoRet /\ CP.ccOnly) =>
    /\ ~ret.accFaulted
    /\ ~ret.cruiseState.standstill
    /\ ret.cruiseState.nonAdaptive
    /\ ret.cruiseState.enabled = (pt_vl.ECMEngineStatus.CruiseActive = 1)

\* C6 witness: a CC-only car whose status code is 3 (faulted) with the
\* cruise-active bit set
C6_Witness ==
  /\ ret # NoRet
  /\ CP.ccOnly
  /\ pt_vl.AcceleratorPedal2.CruiseState = 3
  /\ pt_vl.ECMEngineStatus.CruiseActive = 1
  /\ ret.cruiseState.enabled /\ ~ret.accFaulted

\* C7: temporary-fault is true exactly for status 2, permanent-fault exactly
\* for status 3, never both, and both follow the table's current status
\* whatever status the decoder held before.
C7_SteerFaults ==
  ret # NoRet =>
    LET code == pt_vl.PSCMStatus.LKATorqueDeliveredStatus
    IN /\ ret.steerFaultTemporary = (code = 2)
       /\ ret.steerFaultPermanent = (code = 3)
       /\ ~(ret.steerFaultTemporary /\ ret.steerFaultPermanent)

\* C7 witness: status 2 decoded as a temporary and not a permanent fault
C7_Witness ==
  /\ ret # NoRet
  /\ pt_vl.PSCMStatus.LKATorqueDeliveredStatus = 2
  /\ ret.steerFaultTemporary /\ ~ret.steerFaultPermanent

\* C8: after update, echo-seen is true exactly when the loopback table holds
\* at least one frame of ASCMLKASteeringCmd; before the first update it is false.
C8_EchoSeen ==
  /\ ret # NoRet =>
       loopback_lka_steering_cmd_updated = (Len(loopback_vl_all) >= 1)
  /\ prev_cruise_buttons = Unset => ~loopback_lka_steering_cmd_updated

\* C8 witness: one frame in the cycle and echo-seen is true
C8_Witness ==
  /\ ret # NoRet
  /\ Len(loopback_vl_all) = 1
  /\ loopback_lka_steering_cmd_updated

\* C9: with ManualMode = 1 the gear is the manual-override label; otherwise it
\* is the gear of the label the dictionary gives the selector code, and
\* "unknown" when the dictionary has no such code.
C9_Gear ==
  ret # NoRet =>
    LET code == pt_vl.ECMPRDNL2.PRNDL2
    IN IF pt_vl.ECMPRDNL2.ManualMode = 1
         THEN ret.gearShifter = "manumatic"
         ELSE IF code \in DOMAIN shifter_values
                THEN ret.gearShifter = parse_gear_shifter(shifter_values[code])
                ELSE ret.gearShifter = "unknown"

\* C9 witness: manual mode set on a selector code the dictionary maps to
\* another gear
C9_Witness ==
  /\ ret # NoRet
  /\ pt_vl.ECMPRDNL2.ManualMode = 1
  /\ pt_vl.ECMPRDNL2.PRNDL2 \in DOMAIN shifter_values
  /\ shifter_values[pt_vl.ECMPRDNL2.PRNDL2] = "D"
  /\ ret.gearShifter = "manumatic"

\* C10: every update leaves in prev_cruise_buttons the code that was current
\* before the call, and in cruise_buttons and buttons_counter the values of
\* the powertrain table.
C10_ButtonEdge ==
  [][ret' # NoRet =>
       /\ prev_cruise_buttons' = cruise_buttons
       /\ cruise_buttons' = pt_vl'.ASCMSteeringButton.ACCButtons
       /\ buttons_counter' = pt_vl'.ASCMSteeringButton.RollingCounter]_vars

\* C10 witness: after a second or later update the previous code is a nonzero
\* code of an earlier cycle and differs from the current one
C10_Witness ==
  /\ ret # NoRet
  /\ prev_cruise_buttons > 0
  /\ cruise_buttons # prev_cruise_buttons
  /\ cruise_buttons = pt_vl.ASCMSteeringButton.ACCButtons

\* the snapshot fields that C11 compares: all but vEgo, aEgo and gearShifter
ComparedFields ==
  { "wheelSpeeds", "vEgoRaw", "standstill", "brake", "brakePressed", "gas", "gasPressed",
    "steeringAngleDeg", "steeringRateDeg", "steeringTorque", "steeringTorqueEps",
    "steeringPressed", "steerFaultTemporary", "steerFaultPermanent",
    "doorOpen", "seatbeltUnlatched", "leftBlinker", "rightBlinker",
    "parkingBrake", "espDisabled", "accFaulted", "cruiseState",
    "stockAeb", "stockFcw" }

\* C11: two decoders of one configuration that decoded the same tables agree
\* on every snapshot field but filtered velocity and acceleration and gear,
\* whatever each decoded before; and a call of update on one decoder leaves
\* the fields of the other as they were.
C11_SnapshotsAgree ==
  /\ [](  (ret # NoRet /\ other.ret # NoRet) =>
            \A f \in ComparedFields : ret[f] = other.ret[f])
  /\ [][ /\ update_calls' # update_calls => other' = other
         /\ (other' # other /\ other'.ret # NoRet) =>
              (UNCHANGED <<selfvars, ret>>) ]_vars

\* C11 witness: the first decoder has been called once, the second had
\* already decoded a permanent fault (status 3) before its latest call; both
\* decoded the current tables, whose status is 2, and report the same faults
C11_Witness ==
  /\ ret # NoRet /\ other.ret # NoRet
  /\ update_calls = 1
  /\ other.lkas_status_found = 3
  /\ pt_vl.PSCMStatus.LKATorqueDeliveredStatus = 2
  /\ ret.steerFaultTemporary /\ other.ret.steerFaultTemporary
  /\ ~ret.steerFaultPermanent /\ ~other.ret.steerFaultPermanent

\* C12: every call of update feeds the speed estimator exactly once with
\* vEgoRaw, the mean of the four wheel speeds, and nothing else touches the
\* estimator, so it has received as many updates as update had calls;
\* standstill is vEgoRaw < 0.01 whatever the estimator holds.
C12_SpeedEstimator ==
  /\ [](kf_updates = update_calls)
  /\ [](ret # NoRet =>
          LET w == ret.wheelSpeeds
          IN /\ ret.vEgoRaw = w.fl + w.fr + w.rl + w.rr
             /\ ret.standstill = (ret.vEgoRaw < 40)
             /\ <<ret.vEgo, ret.aEgo>> = v_ego_kf)
  /\ [][ IF ret' # NoRet /\ other' = other
           THEN /\ update_calls' = update_calls + 1
                /\ v_ego_kf' = update_speed_kf(v_ego_kf, ret'.vEgoRaw)
           ELSE UNCHANGED <<v_ego_kf, kf_updates, update_calls>> ]_vars

\* C12 witness: the second call finds all four wheel speeds at 0 while the
\* estimator still holds a velocity from the first call: raw velocity 0,
\* standstill true, two updates received
C12_Witness ==
  /\ ret # NoRet
  /\ update_calls = 2 /\ kf_updates = 2
  /\ pt_vl.EBCMWheelSpdFront = [FLWheelSpd |-> 0, FRWheelSpd |-> 0]
  /\ pt_vl.EBCMWheelSpdRear = [RLWheelSpd |-> 0, RRWheelSpd |-> 0]
  /\ ret.vEgoRaw = 0 /\ ret.standstill
  /\ ret.vEgo # 0

====
